---- MODULE Spec2Model ----
(***************************************************************************)
(* Model of OllamaConnectionManager                                         *)
(* (src/extension/ollama/vscode-node/ollamaConnectionManager.ts): the      *)
(* connection state record, the reconnect timer, the health-check interval *)
(* and the asynchronous operations connect / reconnect / updateEndpoint /  *)
(* switchModel.  Every action is one run-to-completion segment of the      *)
(* single-threaded event loop: the code between two awaits.                *)
(***************************************************************************)
EXTENDS Integers, Sequences, FiniteSets, Bags, TLC

VARIABLES
    state,                \* this.state : ConnectionState
    reconnectTimer,       \* this.reconnectTimer : handle, 0 = undefined
    timers,               \* the event loop's pending setTimeout timers
    healthCheckInterval,  \* this.healthCheckInterval is armed
    ollamaEndpoint,       \* this.ollamaEndpoint
    calls,                \* connect() invocations that are suspended at an await
    health,               \* the health-check callback suspended at its fetch
    switches,             \* switchModel() invocations suspended at their fetch
    prompts,              \* open 'Retry' / 'Open Settings' error prompts
    disposed,             \* dispose() has run
    userOps,              \* calls by the users of the object counted so far
    snapshot,             \* a value getState() returned, as its caller holds it
    payload,              \* a value a status-changed observer received and kept
    launcher,             \* the polling of a startOllama() invocation
    auth,                 \* the OllamaAuthenticationService and its token manager
    stream,               \* a pull or a benchmark reading its streamed response
    byok,                 \* the BYOKContrib and the providers it registered
    chat,                 \* the last chat participant id or name computed
    events,               \* what the last step emitted: notifications, fetches, timers
    lastOp                \* the operation segment the last step ran and what it returned

vars == <<state, reconnectTimer, timers, healthCheckInterval, ollamaEndpoint,
          calls, health, switches, prompts, disposed, userOps, snapshot, payload,
          launcher, auth, stream, byok, chat, events, lastOp>>

-----------------------------------------------------------------------------
(* Bounds of the model *)

MaxUserOps == 2       \* calls the users of the object make in one behaviour
MaxPushed == 3        \* length to which a caller grows an array it was handed
MaxPrompts == 1       \* error prompts kept open at the same time; a prompt
                      \* shown beyond it is closed unanswered
MaxAuthCalls == 3     \* calls made on the authentication service in one behaviour
MaxChunks == 2        \* chunks a response stream delivers before it ends
MaxLines == 2         \* lines in one chunk of a response stream
MaxAuthChanges == 3   \* calls of BYOKContrib._authChange in one behaviour
MaxParts == 2         \* pieces a chat participant name is put together from

(* Program constants *)

MAX_RECONNECT_ATTEMPTS == 10
INITIAL_RECONNECT_DELAY == 1000
MAX_RECONNECT_DELAY == 30000

(* Values of the environment *)

Undefined == "undefined"          \* an absent optional string field
NoLatency == 0 - 1                \* an absent latency
NoDate == 0                       \* an absent lastSuccessfulConnection
NoTimer == 0                      \* reconnectTimer === undefined
NoIncrement == 0 - 1              \* a progress report without increment

Connected == "connected"
Disconnected == "disconnected"
Reconnecting == "reconnecting"
Starting == "starting"
ConnectionStatus == {Connected, Disconnected, Reconnecting, Starting}

Endpoints == {"http://localhost:11434", "http://other:11434"}
DefaultEndpoint == "http://localhost:11434"
Dates == {1}                      \* values of new Date()
ConnectLatencies == {20}          \* round trips measured by connect()
HealthLatencies == {20, 1500}     \* round trips measured by a health check, below
                                  \* and above the 1000ms of its warning
ModelNames == {"b", "c"}          \* names a caller may pass to switchModel
\* bodies of an OK /api/tags response: with or without a models field
TagsBody(models) == [present |-> TRUE, models |-> models]
Absent == [present |-> FALSE, models |-> <<>>]
TagsBodies == {Absent, TagsBody(<<>>), TagsBody(<<[name |-> "b"]>>),
               TagsBody(<<[name |-> "a"], [name |-> "b"]>>)}
\* errors thrown by the try block of connect(): one with a message (non-OK
\* status) and one without
ConnectErrors == {[message |-> "HTTP 500"], [message |-> ""]}

Min(a, b) == IF a <= b THEN a ELSE b

-----------------------------------------------------------------------------
(* Events a step can emit *)

StatusChanged(s) == [type |-> "statusChanged", payload |-> s]
ModelChanged(name) == [type |-> "modelChanged", payload |-> name]
Fetch(url, path) == [type |-> "fetch", url |-> url, path |-> path]
SetTimeout(h, delay) == [type |-> "setTimeout", handle |-> h, delay |-> delay]
Prompt == [type |-> "prompt"]

\* pre is this.state as the step found it
Op(name, ret, arg) ==
    [op |-> name, ret |-> ret, arg |-> arg, body |-> Absent, pre |-> state]

-----------------------------------------------------------------------------
(* The synchronous helpers.  They take and return the part of the object   *)
(* the code reads and writes: m.state, m.reconnectTimer, m.timers,         *)
(* m.prompts, and m.events, the events emitted so far in this step.        *)

Machine == [state |-> state, reconnectTimer |-> reconnectTimer, timers |-> timers,
            prompts |-> prompts, snapshot |-> snapshot, payload |-> payload,
            events |-> <<>>]

\* this.state = { ... }: the field now refers to a new object; the object a
\* kept payload refers to is no longer the one the manager writes to.  The
\* spread copies the reference to the availableModels array.
Replace(m, s) == [m EXCEPT !.state = s, !.payload.live = FALSE]

\* this.state.field = value: a write into the object this.state refers to,
\* seen through every other reference to that object
Assign(m, field, value) ==
    [m EXCEPT !.state[field] = value,
              !.payload.now[field] = IF m.payload.live THEN value ELSE @]

\* the observer keeps the reference it is handed when the status is the one
\* it is interested in
Deliver(m, ev) ==
    IF ev.type = "statusChanged" /\ ev.payload.status = m.payload.want
    THEN [m EXCEPT !.payload = [want |-> m.payload.want, held |-> TRUE,
                                asDelivered |-> ev.payload, now |-> ev.payload,
                                live |-> TRUE]]
    ELSE m

\* EventEmitter.fire: a disposed emitter has no listeners left
Fire(m, ev) == IF disposed THEN m ELSE Deliver([m EXCEPT !.events = Append(@, ev)], ev)

Emit(m, ev) == [m EXCEPT !.events = Append(@, ev)]

\* updateStatus without the fire
updateStatusSilent(m, status, error) ==
    [m EXCEPT !.state = [m.state EXCEPT !.status = status, !.lastError = error]]

updateStatus(m, status, error) ==
    LET s == [m.state EXCEPT !.status = status, !.lastError = error]
    IN Fire(Replace(m, s), StatusChanged(s))

BackoffDelayAfterIncrement(attempts) ==
    Min(INITIAL_RECONNECT_DELAY * 2^(attempts + 1), MAX_RECONNECT_DELAY)

BackoffDelay(attempts) ==
    Min(INITIAL_RECONNECT_DELAY * 2^attempts, MAX_RECONNECT_DELAY)

ReconnectingMessage(delay) == "Reconnecting in " \o ToString(delay \div 1000) \o "s..."

FreshHandle(m) ==
    CHOOSE h \in 1..(Cardinality(m.timers) + 2) :
        /\ h # m.reconnectTimer
        /\ \A t \in m.timers : t.handle # h
        /\ \A k \in 1..(h - 1) : k = m.reconnectTimer \/ \E t \in m.timers : t.handle = k

clearTimeout(tm, h) == {t \in tm : t.handle # h}

\* scheduleReconnect without the setTimeout
scheduleReconnectArmsNothing(m) ==
    IF m.state.reconnectAttempts >= MAX_RECONNECT_ATTEMPTS
    THEN Emit([m EXCEPT !.prompts = Min(@ + 1, MaxPrompts)], Prompt)
    ELSE LET delay == BackoffDelay(m.state.reconnectAttempts)
             m1 == [m EXCEPT !.state.reconnectAttempts = @ + 1]
             m2 == updateStatus(m1, Reconnecting, ReconnectingMessage(delay))
         IN [m2 EXCEPT !.timers = clearTimeout(@, m2.reconnectTimer)]

\* scheduleReconnect without 'Clear existing timer'
scheduleReconnectKeepsTimer(m) ==
    IF m.state.reconnectAttempts >= MAX_RECONNECT_ATTEMPTS
    THEN Emit([m EXCEPT !.prompts = Min(@ + 1, MaxPrompts)], Prompt)
    ELSE LET delay == BackoffDelay(m.state.reconnectAttempts)
             m1 == [m EXCEPT !.state.reconnectAttempts = @ + 1]
             m2 == updateStatus(m1, Reconnecting, ReconnectingMessage(delay))
             h == FreshHandle(m2)
         IN Emit([m2 EXCEPT !.timers = @ \cup {[handle |-> h, delay |-> delay]},
                            !.reconnectTimer = h],
                 SetTimeout(h, delay))

\* scheduleReconnect comparing with > where the code has >=
scheduleReconnectOffByOne(m) ==
    IF m.state.reconnectAttempts > MAX_RECONNECT_ATTEMPTS
    THEN Emit([m EXCEPT !.prompts = Min(@ + 1, MaxPrompts)], Prompt)
    ELSE LET delay == BackoffDelay(m.state.reconnectAttempts)
             m1 == [m EXCEPT !.state.reconnectAttempts = @ + 1]
             m2 == updateStatus(m1, Reconnecting, ReconnectingMessage(delay))
             m3 == [m2 EXCEPT !.timers = clearTimeout(@, m2.reconnectTimer)]
             h == FreshHandle(m3)
         IN Emit([m3 EXCEPT !.timers = @ \cup {[handle |-> h, delay |-> delay]},
                            !.reconnectTimer = h],
                 SetTimeout(h, delay))

scheduleReconnect(m) ==
    IF m.state.reconnectAttempts >= MAX_RECONNECT_ATTEMPTS
    THEN Emit([m EXCEPT !.prompts = Min(@ + 1, MaxPrompts)], Prompt)
    ELSE LET delay == BackoffDelay(m.state.reconnectAttempts)
             m1 == Assign(m, "reconnectAttempts", m.state.reconnectAttempts + 1)
             m2 == updateStatus(m1, Reconnecting, ReconnectingMessage(delay))
             m3 == [m2 EXCEPT !.timers = clearTimeout(@, m2.reconnectTimer)]
             h == FreshHandle(m3)
         IN Emit([m3 EXCEPT !.timers = @ \cup {[handle |-> h, delay |-> delay]},
                            !.reconnectTimer = h],
                 SetTimeout(h, delay))

-----------------------------------------------------------------------------
(* connect() *)

\* a suspended connect(): where it waits, whether initialize() awaits it, and
\* the endpoint its pending /api/tags request was sent to
Call(pc, isInit, url) == [pc |-> pc, init |-> isInit, url |-> url]

Add(bag, x) == bag (+) SetToBag({x})
Remove(bag, x) == bag (-) SetToBag({x})

\* connect() issuing its probe before updateStatus(Starting)
connectBeginProbesFirst(m, endpoint) ==
    updateStatus(Emit(m, Fetch(endpoint, "/api/version")), Starting, Undefined)

\* connect() up to its first await: updateStatus(Starting), then the
\* /api/version probe of checkOllamaRunning is issued
connectBegin(m, endpoint) ==
    Emit(updateStatus(m, Starting, Undefined), Fetch(endpoint, "/api/version"))

Commit(m) ==
    /\ state' = m.state
    /\ reconnectTimer' = m.reconnectTimer
    /\ timers' = m.timers
    /\ prompts' = m.prompts
    /\ snapshot' = m.snapshot
    /\ payload' = m.payload
    /\ events' = m.events

StartCall(m, endpoint) ==
    /\ Commit(connectBegin(m, endpoint))
    /\ calls' = Add(calls, Call("checkRunning", FALSE, Undefined))

\* a call by a user of the object
UserOp ==
    /\ ~disposed
    /\ userOps < MaxUserOps
    /\ userOps' = userOps + 1

\* a connect() invocation returns; initialize() then starts health monitoring
Return(c) ==
    /\ calls' = Remove(calls, c)
    /\ healthCheckInterval' = (healthCheckInterval \/ c.init)

\* private state: ConnectionState = { status: Disconnected, reconnectAttempts: 0,
\* availableModels: [] }
FieldInitializer ==
    [status |-> Disconnected, lastError |-> Undefined, reconnectAttempts |-> 0,
     lastSuccessfulConnection |-> NoDate, currentModel |-> Undefined,
     availableModels |-> <<>>, latency |-> NoLatency]

\* no startOllama() is polling, and no poll of an earlier one is in flight
NoLauncher == [interval |-> FALSE, attempts |-> 0, inflight |-> 0, stale |-> 0]

\* the session object built by getAnyGitHubSession
stubSession ==
    [id |-> "ollama-stub-session",
     accessToken |-> "ollama-local-token",
     account |-> [id |-> "ollama-user", label |-> "Ollama Local User"],
     scopes |-> <<"user:email">>]

\* an optional session: <<>> is undefined, <<s>> is the session s
NoSession == <<>>
\* what a call of the authentication service returned: a boolean as a string,
\* an optional session, or a token
NoReturn == [op |-> "constructor", options |-> "none", flag |-> "none",
             session |-> NoSession, token |-> Undefined]

\* OllamaAuthenticationService and its OllamaStubTokenManager after
\* construction: no session cached, no token created
AuthConstructed ==
    [anyGitHubSession |-> NoSession,
     permissiveGitHubSession |-> NoSession,
     stubToken |-> FALSE,
     made |-> 0,
     last |-> NoReturn]
\* the locals of a streaming loop: nothing accumulated, nothing thrown
NoProgress ==
    [lastPercent |-> 0, tokenCount |-> 0, fullResponse |-> "",
     firstToken |-> FALSE, reports |-> <<>>, thrown |-> Undefined]

\* no pull and no benchmark running
NoStream ==
    [kind |-> "none", model |-> Undefined, phase |-> "idle", last |-> "none",
     acc |-> NoProgress, pre |-> NoProgress, chunk |-> <<>>, reads |-> 0,
     cancelled |-> FALSE, outcome |-> Undefined]

\* Map.set(key, value) on a map kept as a set of entries
MapSet(map, key, value) ==
    {e \in map : e.name # key} \cup {[name |-> key, endpoint |-> value]}

\* _authChange registering on every call
authChangeUnguarded(b) ==
    LET endpoint == IF b.config = Undefined THEN DefaultEndpoint ELSE b.config
        providers == MapSet(b.providers, "ollama", endpoint)
    IN [b EXCEPT !.byokProvidersRegistered = TRUE,
                 !.providers = providers,
                 !.registerCalls = @ + Cardinality(providers),
                 !.authChanges = @ + 1]

\* BYOKContrib._authChange: the first call creates the Ollama provider with
\* the configured endpoint, or the default, and registers every provider of
\* the map; later calls do nothing
authChange(b) ==
    IF ~b.byokProvidersRegistered
    THEN LET endpoint == IF b.config = Undefined THEN DefaultEndpoint
                         ELSE b.config
             providers == MapSet(b.providers, "ollama", endpoint)
         IN [b EXCEPT !.byokProvidersRegistered = TRUE,
                      !.providers = providers,
                      !.registerCalls = @ + Cardinality(providers),
                      !.authChanges = @ + 1]
    ELSE [b EXCEPT !.authChanges = @ + 1]

\* the fields of a BYOKContrib before its constructor calls _authChange, the
\* endpoint setting unset
BYOKFields ==
    [byokProvidersRegistered |-> FALSE, providers |-> {}, registerCalls |-> 0,
     config |-> Undefined, authChanges |-> 0, last |-> "constructor"]

\* BYOKContrib after its constructor, which calls _authChange once
BYOKConstructed == authChange(BYOKFields)

\* no chat participant id or name computed yet
NoChat == [op |-> "none", input |-> "", output |-> ""]

\* nothing returned by getState() yet
NoSnapshot == [taken |-> FALSE, value |-> FieldInitializer, shared |-> FALSE]

\* nothing kept yet by an observer interested in the status `want'
NoPayload(want) ==
    [want |-> want, held |-> FALSE, asDelivered |-> FieldInitializer,
     now |-> FieldInitializer, live |-> FALSE]

\* the object after construction, seen by an observer interested in `want',
\* when `made' of the calls the users may make are not available to them
InitWith(want, made) ==
    /\ disposed = FALSE
    /\ LET m == connectBegin(
                   [state |-> FieldInitializer,
                    reconnectTimer |-> NoTimer, timers |-> {}, prompts |-> 0,
                    snapshot |-> NoSnapshot, payload |-> NoPayload(want),
                    events |-> <<>>], DefaultEndpoint)
       IN /\ state = m.state
          /\ reconnectTimer = m.reconnectTimer
          /\ timers = m.timers
          /\ prompts = m.prompts
          /\ snapshot = m.snapshot
          /\ payload = m.payload
          /\ events = m.events
    /\ healthCheckInterval = FALSE
    /\ ollamaEndpoint = DefaultEndpoint
    /\ calls = SetToBag({Call("checkRunning", TRUE, Undefined)})
    /\ health = "idle"
    /\ switches = EmptyBag
    /\ userOps = made
    /\ launcher = NoLauncher
    /\ auth = AuthConstructed
    /\ stream = NoStream
    /\ byok = BYOKConstructed
    /\ chat = NoChat
    /\ lastOp = [op |-> "constructor", ret |-> "pending", arg |-> Undefined,
                 body |-> Absent, pre |-> FieldInitializer]

\* no observer keeps a payload
Init == InitWith("none", 0)

-----------------------------------------------------------------------------
(* connect(): the segments after each await *)

\* checkOllamaRunning resolved true: the /api/tags probe is issued
CheckRunningOk(c) ==
    /\ c.pc = "checkRunning"
    /\ calls' = Add(Remove(calls, c), Call("tags", c.init, ollamaEndpoint))
    /\ events' = <<Fetch(ollamaEndpoint, "/api/tags")>>
    /\ lastOp' = Op("connect", "pending", "running")
    /\ UNCHANGED <<state, reconnectTimer, timers, snapshot, payload,
                   healthCheckInterval,
                   ollamaEndpoint, health, switches, prompts, disposed, userOps,
                   launcher, auth, stream,
                   byok, chat>>

\* checkOllamaRunning resolved false (non-OK, timeout, network error):
\* startOllama() is awaited
CheckRunningFail(c) ==
    /\ c.pc = "checkRunning"
    /\ calls' = Add(Remove(calls, c), Call("startOllama", c.init, Undefined))
    /\ events' = <<>>
    /\ lastOp' = Op("connect", "pending", Undefined)
    /\ UNCHANGED <<state, reconnectTimer, timers, snapshot, payload,
                   healthCheckInterval,
                   ollamaEndpoint, health, switches, prompts, disposed, userOps,
                   launcher, auth, stream,
                   byok, chat>>

StartedMessage == [type |-> "info", message |-> "Started Ollama service"]

\* resolve(true) in startOllama(), after its information message: connect()
\* resumes and issues the /api/tags probe
Started(c) ==
    /\ calls' = Add(Remove(calls, c), Call("tags", c.init, ollamaEndpoint))
    /\ events' = <<StartedMessage, Fetch(ollamaEndpoint, "/api/tags")>>
    /\ lastOp' = Op("connect", "pending", "started")
    /\ UNCHANGED <<state, reconnectTimer, timers, snapshot, payload,
                   healthCheckInterval,
                   ollamaEndpoint, health, switches, prompts, disposed, userOps>>

\* resolve(false) in startOllama(): connect() resumes, fails and returns false
NotStarted(c) ==
    /\ Commit(scheduleReconnect(
          updateStatus(Machine, Disconnected,
                       "Ollama is not installed or cannot be started")))
    /\ Return(c)
    /\ lastOp' = Op("connect", "false", Undefined)
    /\ UNCHANGED <<ollamaEndpoint, health, switches, disposed, userOps>>

\* startOllama() resolved true, its polling taken as one step
StartOllamaOk(c) ==
    /\ c.pc = "startOllama"
    /\ Started(c)
    /\ UNCHANGED <<launcher, auth, stream,
                   byok, chat>>

\* startOllama() resolved false: not installed, or (its polling taken as one
\* step) not reachable after polling
StartOllamaFail(c) ==
    /\ c.pc = "startOllama"
    /\ NotStarted(c)
    /\ UNCHANGED <<launcher, auth, stream,
                   byok, chat>>

\* data.models?.map((m: any) => m.name) || []
ModelNamesOf(body) ==
    IF ~body.present THEN <<>> ELSE [k \in DOMAIN body.models |-> body.models[k].name]

ReconnectedMessage == [type |-> "info", message |-> "Ollama reconnected successfully!"]

connectSucceededKeepsAttempts(m, body, date, latency) ==
    LET s == [m.state EXCEPT !.status = Connected,
                             !.lastSuccessfulConnection = date,
                             !.availableModels = ModelNamesOf(body),
                             !.latency = latency,
                             !.lastError = Undefined]
    IN Fire([m EXCEPT !.state = s], StatusChanged(s))

connectSucceededKeepsError(m, body, date, latency) ==
    LET s == [m.state EXCEPT !.status = Connected,
                             !.reconnectAttempts = 0,
                             !.lastSuccessfulConnection = date,
                             !.availableModels = ModelNamesOf(body),
                             !.latency = latency]
    IN Fire([m EXCEPT !.state = s], StatusChanged(s))

connectSucceeded(m, body, date, latency) ==
    LET s == [m.state EXCEPT !.status = Connected,
                             !.reconnectAttempts = 0,
                             !.lastSuccessfulConnection = date,
                             !.availableModels = ModelNamesOf(body),
                             !.latency = latency,
                             !.lastError = Undefined]
        m1 == Fire([Replace(m, s) EXCEPT !.snapshot.shared = FALSE], StatusChanged(s))
    IN IF m1.state.reconnectAttempts > 0 THEN Emit(m1, ReconnectedMessage) ELSE m1

\* /api/tags answered OK and its body parsed
ConnectSuccess(c) ==
    /\ c.pc = "tags"
    /\ \E body \in TagsBodies, date \in Dates, latency \in ConnectLatencies :
          /\ Commit(connectSucceeded(Machine, body, date, latency))
          /\ lastOp' = [Op("connect", "true", "parsed") EXCEPT !.body = body]
    /\ Return(c)
    /\ UNCHANGED <<ollamaEndpoint, health, switches, disposed, userOps,
                   launcher, auth, stream,
                   byok, chat>>

\* error.message || 'Unknown error'
ErrorMessage(error) == IF error.message = "" THEN "Unknown error" ELSE error.message

\* the catch block without scheduleReconnect
connectFailedNoRetry(m, error) == updateStatus(m, Disconnected, ErrorMessage(error))

\* the catch block resetting what the last success had stored
connectFailedForgets(m, error) ==
    scheduleReconnect(
        updateStatus([m EXCEPT !.state.availableModels = <<>>,
                               !.state.latency = NoLatency],
                     Disconnected, ErrorMessage(error)))

connectFailed(m, error) ==
    scheduleReconnect(updateStatus(m, Disconnected, ErrorMessage(error)))

\* the try block threw: non-OK /api/tags, timeout, network error, bad body
ConnectFailure(c) ==
    /\ c.pc = "tags"
    /\ \E error \in ConnectErrors : Commit(connectFailed(Machine, error))
    /\ Return(c)
    /\ lastOp' = Op("connect", "false", Undefined)
    /\ UNCHANGED <<ollamaEndpoint, health, switches, disposed, userOps,
                   launcher, auth, stream,
                   byok, chat>>

-----------------------------------------------------------------------------
(* The callers of connect() *)

\* the public connect(), called by a user of the object
Connect ==
    /\ UserOp
    /\ StartCall(Machine, ollamaEndpoint)
    /\ lastOp' = Op("connect", "pending", "called")
    /\ UNCHANGED <<healthCheckInterval, ollamaEndpoint, health, switches, disposed,
                   launcher, auth, stream,
                   byok, chat>>

\* the setTimeout callback of scheduleReconnect
TimerFire ==
    /\ \E t \in timers :
          /\ StartCall([Machine EXCEPT !.timers = @ \ {t}], ollamaEndpoint)
          /\ lastOp' = Op("timer", "pending", ToString(t.delay))
    /\ UNCHANGED <<healthCheckInterval, ollamaEndpoint, health, switches, disposed,
                   userOps,
                   launcher, auth, stream,
                   byok, chat>>

\* reconnect() without the reset of the counter
reconnectBeginKeepsCounter(m, endpoint) ==
    connectBegin([m EXCEPT !.timers = clearTimeout(@, m.reconnectTimer)], endpoint)

\* reconnect(), up to the first await of its connect()
reconnectBegin(m, endpoint) ==
    connectBegin([Assign(m, "reconnectAttempts", 0)
                     EXCEPT !.timers = clearTimeout(@, m.reconnectTimer)],
                 endpoint)

Reconnect ==
    /\ UserOp
    /\ Commit(reconnectBegin(Machine, ollamaEndpoint))
    /\ calls' = Add(calls, Call("checkRunning", FALSE, Undefined))
    /\ lastOp' = Op("reconnect", "pending", Undefined)
    /\ UNCHANGED <<healthCheckInterval, ollamaEndpoint, health, switches, disposed,
                   launcher, auth, stream,
                   byok, chat>>

UpdateEndpoint ==
    /\ UserOp
    /\ \E endpoint \in Endpoints :
          /\ ollamaEndpoint' = endpoint
          /\ Commit(reconnectBegin(Machine, endpoint))
          /\ calls' = Add(calls, Call("checkRunning", FALSE, Undefined))
          /\ lastOp' = Op("updateEndpoint", "void", endpoint)
    /\ UNCHANGED <<healthCheckInterval, health, switches, disposed,
                   launcher, auth, stream,
                   byok, chat>>

\* the user picks 'Retry' in the error prompt
Retry ==
    /\ prompts > 0
    /\ StartCall([Assign(Machine, "reconnectAttempts", 0) EXCEPT !.prompts = @ - 1],
                 ollamaEndpoint)
    /\ lastOp' = Op("retry", "pending", Undefined)
    /\ UNCHANGED <<healthCheckInterval, ollamaEndpoint, health, switches, disposed,
                   userOps,
                   launcher, auth, stream,
                   byok, chat>>

\* the user picks 'Open Settings' or dismisses the prompt
PromptClosed ==
    /\ prompts > 0
    /\ prompts' = prompts - 1
    /\ events' = <<>>
    /\ lastOp' = Op("promptClosed", "void", Undefined)
    /\ UNCHANGED <<state, reconnectTimer, timers, snapshot, payload,
                   healthCheckInterval, ollamaEndpoint,
                   calls, health, switches, disposed, userOps,
                   launcher, auth, stream,
                   byok, chat>>

-----------------------------------------------------------------------------
(* Health monitoring: the setInterval callback of startHealthMonitoring *)

\* a tick that probes without looking at the status
HealthTickAnyStatus ==
    /\ healthCheckInterval
    /\ health = "idle"
    /\ health' = "probing"
    /\ events' = <<Fetch(ollamaEndpoint, "/api/version")>>
    /\ lastOp' = Op("healthTick", "void", Undefined)
    /\ UNCHANGED <<state, reconnectTimer, timers, snapshot, payload,
                   healthCheckInterval, ollamaEndpoint,
                   calls, switches, prompts, disposed, userOps,
                   launcher, auth, stream,
                   byok, chat>>

\* a tick of the interval, up to its await.  The probe has a 3s timeout and
\* the interval is 10s, so the previous tick's probe has completed.
HealthTick ==
    /\ healthCheckInterval
    /\ health = "idle"
    /\ IF state.status = Connected
       THEN /\ health' = "probing"
            /\ events' = <<Fetch(ollamaEndpoint, "/api/version")>>
       ELSE /\ health' = health
            /\ events' = <<>>
    /\ lastOp' = Op("healthTick", "void", Undefined)
    /\ UNCHANGED <<state, reconnectTimer, timers, snapshot, payload,
                   healthCheckInterval, ollamaEndpoint,
                   calls, switches, prompts, disposed, userOps,
                   launcher, auth, stream,
                   byok, chat>>

\* a health success that goes through updateStatus
healthSucceededUpdatesStatus(m, latency) ==
    updateStatus(Assign(m, "latency", latency), Connected, Undefined)

\* the probe answered OK: this.state.latency = Date.now() - startTime
healthSucceeded(m, latency) == Assign(m, "latency", latency)

HealthOk ==
    /\ health = "probing"
    /\ health' = "idle"
    /\ \E latency \in HealthLatencies : Commit(healthSucceeded(Machine, latency))
    /\ lastOp' = Op("healthOk", "void", Undefined)
    /\ UNCHANGED <<healthCheckInterval, ollamaEndpoint, calls, switches, disposed,
                   userOps,
                   launcher, auth, stream,
                   byok, chat>>

\* the probe failed: non-OK, timeout or network error
healthFailed(m) == scheduleReconnect(updateStatus(m, Disconnected, "Connection lost"))

HealthFail ==
    /\ health = "probing"
    /\ health' = "idle"
    /\ Commit(healthFailed(Machine))
    /\ lastOp' = Op("healthFail", "void", Undefined)
    /\ UNCHANGED <<healthCheckInterval, ollamaEndpoint, calls, switches, disposed,
                   userOps,
                   launcher, auth, stream,
                   byok, chat>>

-----------------------------------------------------------------------------
(* switchModel(modelName) *)

Includes(seq, x) == \E k \in DOMAIN seq : seq[k] = x

switchPreconditionStatusOnly(s, modelName) == s.status = Connected

\* the two checks made before any request is sent
switchPrecondition(s, modelName) ==
    /\ s.status = Connected
    /\ Includes(s.availableModels, modelName)

\* switchModel returns false before its try block
SwitchRejected ==
    /\ UserOp
    /\ \E modelName \in ModelNames :
          /\ ~switchPrecondition(state, modelName)
          /\ lastOp' = Op("switchModel", "false", modelName)
    /\ events' = <<>>
    /\ UNCHANGED <<state, reconnectTimer, timers, snapshot, payload,
                   healthCheckInterval, ollamaEndpoint,
                   calls, health, switches, prompts, disposed,
                   launcher, auth, stream,
                   byok, chat>>

\* switchModel passes its checks and sends the validation request
SwitchBegin ==
    /\ UserOp
    /\ \E modelName \in ModelNames :
          /\ switchPrecondition(state, modelName)
          /\ switches' = Add(switches, modelName)
          /\ lastOp' = Op("switchModel", "pending", modelName)
    /\ events' = <<Fetch(ollamaEndpoint, "/api/generate")>>
    /\ UNCHANGED <<state, reconnectTimer, timers, snapshot, payload,
                   healthCheckInterval, ollamaEndpoint,
                   calls, health, prompts, disposed,
                   launcher, auth, stream,
                   byok, chat>>

switchSucceededFiresTwice(m, modelName) ==
    Fire(Fire([m EXCEPT !.state.currentModel = modelName], ModelChanged(modelName)),
         ModelChanged(modelName))

switchSucceededFiresStatus(m, modelName) ==
    Fire(updateStatus([m EXCEPT !.state.currentModel = modelName],
                      m.state.status, m.state.lastError),
         ModelChanged(modelName))

switchSucceeded(m, modelName) ==
    Fire(Assign(m, "currentModel", modelName), ModelChanged(modelName))

\* the validation request answered OK
SwitchOk(modelName) ==
    /\ Commit(switchSucceeded(Machine, modelName))
    /\ switches' = Remove(switches, modelName)
    /\ lastOp' = Op("switchModel.response", "true", modelName)
    /\ UNCHANGED <<healthCheckInterval, ollamaEndpoint, calls, health, disposed,
                   userOps,
                   launcher, auth, stream,
                   byok, chat>>

switchFailedSetsModel(m, modelName) == [m EXCEPT !.state.currentModel = modelName]

\* the validation request failed: non-OK, timeout or network error
switchFailed(m, modelName) == m

SwitchFail(modelName) ==
    /\ Commit(switchFailed(Machine, modelName))
    /\ switches' = Remove(switches, modelName)
    /\ lastOp' = Op("switchModel.response", "false", modelName)
    /\ UNCHANGED <<healthCheckInterval, ollamaEndpoint, calls, health, disposed,
                   userOps,
                   launcher, auth, stream,
                   byok, chat>>

-----------------------------------------------------------------------------
(* dispose(): the emitters are disposed, then cleanup() *)

cleanup(m) == [m EXCEPT !.timers = clearTimeout(@, m.reconnectTimer)]

Dispose ==
    /\ ~disposed
    /\ disposed' = TRUE
    /\ Commit(cleanup(Machine))
    /\ healthCheckInterval' = FALSE
    /\ lastOp' = Op("dispose", "void", Undefined)
    /\ UNCHANGED <<ollamaEndpoint, calls, health, switches, userOps,
                   launcher, auth, stream,
                   byok, chat>>

-----------------------------------------------------------------------------
(* startOllama() step by step: the install check, then the polling interval *)

maxAttempts == 10        \* const maxAttempts = 10
PollSpacing == 500       \* setInterval(..., 500)
ProbeTimeout == 2000     \* AbortSignal.timeout(2000) in checkOllamaRunning

\* a probe is over at most ProbeTimeout after its tick: polls that can be in
\* flight together
MaxOverlap == ProbeTimeout \div PollSpacing

\* exec('ollama --version') called back without error: 'ollama serve' is
\* spawned and the interval checkStarted is set, attempts = 0
ExecOk(c) ==
    /\ c.pc = "startOllama"
    /\ ~launcher.interval
    /\ calls' = Add(Remove(calls, c), Call("polling", c.init, Undefined))
    /\ launcher' = [launcher EXCEPT !.interval = TRUE, !.attempts = 0, !.inflight = 0]
    /\ events' = <<>>
    /\ lastOp' = Op("connect", "pending", "installed")
    /\ UNCHANGED <<state, reconnectTimer, timers, snapshot, payload,
                   healthCheckInterval, ollamaEndpoint, health, switches, prompts,
                   disposed, userOps, auth, stream,
                   byok, chat>>

\* the interval fires: attempts++, then checkOllamaRunning issues its probe
Tick ==
    /\ launcher.interval
    /\ launcher.inflight + launcher.stale < MaxOverlap
    /\ launcher' = [launcher EXCEPT !.attempts = @ + 1, !.inflight = @ + 1]
    /\ events' = <<Fetch(ollamaEndpoint, "/api/version")>>
    /\ lastOp' = Op("launcher.tick", "void", Undefined)
    /\ UNCHANGED <<state, reconnectTimer, timers, snapshot, payload,
                   healthCheckInterval, ollamaEndpoint, calls, health, switches,
                   prompts, disposed, userOps, auth, stream,
                   byok, chat>>

\* clearInterval(checkStarted) and resolve: the polls still in flight will
\* find the promise settled
Resolved(l) ==
    [l EXCEPT !.interval = FALSE, !.stale = @ + l.inflight - 1, !.inflight = 0]

\* a poll finds the backend reachable
PollOk(c) ==
    /\ c.pc = "polling"
    /\ launcher.inflight > 0
    /\ launcher' = Resolved(launcher)
    /\ Started(c)
    /\ UNCHANGED <<auth, stream,
                   byok, chat>>

\* a poll finds the backend unreachable while attempts < maxAttempts
PollFailEarly ==
    /\ launcher.inflight > 0
    /\ launcher.attempts < maxAttempts
    /\ launcher' = [launcher EXCEPT !.inflight = @ - 1]
    /\ events' = <<>>
    /\ lastOp' = Op("launcher.poll", "false", Undefined)
    /\ UNCHANGED <<state, reconnectTimer, timers, snapshot, payload,
                   healthCheckInterval, ollamaEndpoint, calls, health, switches,
                   prompts, disposed, userOps, auth, stream,
                   byok, chat>>

\* the last poll clearing the interval without resolve(false)
PollFailFinalNeverResolves(c) ==
    /\ c.pc = "polling"
    /\ launcher.inflight > 0
    /\ launcher.attempts >= maxAttempts
    /\ launcher' = Resolved(launcher)
    /\ events' = <<>>
    /\ lastOp' = Op("launcher.poll", "false", Undefined)
    /\ UNCHANGED <<state, reconnectTimer, timers, snapshot, payload,
                   healthCheckInterval, ollamaEndpoint, calls, health, switches,
                   prompts, disposed, userOps, auth, stream,
                   byok, chat>>

\* a poll finds the backend unreachable when attempts >= maxAttempts
PollFailFinal(c) ==
    /\ c.pc = "polling"
    /\ launcher.inflight > 0
    /\ launcher.attempts >= maxAttempts
    /\ launcher' = Resolved(launcher)
    /\ NotStarted(c)
    /\ UNCHANGED <<auth, stream,
                   byok, chat>>

\* a poll answers after the promise was settled: clearInterval and resolve
\* do nothing, the information message is shown again if it found the backend
StalePoll ==
    /\ launcher.stale > 0
    /\ launcher' = [launcher EXCEPT !.stale = @ - 1]
    /\ \E isRunning \in BOOLEAN :
          /\ events' = IF isRunning THEN <<StartedMessage>> ELSE <<>>
          /\ lastOp' = Op("launcher.poll", "settled",
                          IF isRunning THEN "running" ELSE "unreachable")
    /\ UNCHANGED <<state, reconnectTimer, timers, snapshot, payload,
                   healthCheckInterval, ollamaEndpoint, calls, health, switches,
                   prompts, disposed, userOps, auth, stream,
                   byok, chat>>

-----------------------------------------------------------------------------
(* getState() and what its caller does with the result *)

\* return { ...this.state }: a new object whose fields are copies of the
\* fields of this.state; the availableModels field of both refers to the
\* same array
GetState ==
    /\ UserOp
    /\ snapshot' = [taken |-> TRUE, value |-> state, shared |-> TRUE]
    /\ events' = <<>>
    /\ lastOp' = Op("getState", "snapshot", Undefined)
    /\ UNCHANGED <<state, reconnectTimer, timers, payload, healthCheckInterval,
                   ollamaEndpoint, calls, health, switches, prompts, disposed,
                   launcher, auth, stream,
                   byok, chat>>

PushedName == "c"     \* the name the caller pushes

\* the caller assigns to the status field of the object it was returned
CallerAssign ==
    /\ snapshot.taken
    /\ snapshot.value.status # Disconnected
    /\ snapshot' = [snapshot EXCEPT !.value.status = Disconnected]
    /\ events' = <<>>
    /\ lastOp' = Op("caller.assign", "void", Undefined)
    /\ UNCHANGED <<state, reconnectTimer, timers, payload, healthCheckInterval,
                   ollamaEndpoint, calls, health, switches, prompts, disposed,
                   userOps,
                   launcher, auth, stream,
                   byok, chat>>

\* the caller pushes a name onto the availableModels array of the object it
\* was returned; the array is the manager's own until connect() replaces it
CallerPush ==
    /\ snapshot.taken
    /\ Len(snapshot.value.availableModels) < MaxPushed
    /\ snapshot' = [snapshot EXCEPT !.value.availableModels = Append(@, PushedName)]
    /\ state' = IF snapshot.shared
                THEN [state EXCEPT !.availableModels = Append(@, PushedName)]
                ELSE state
    /\ lastOp' = Op("caller.push", "void", PushedName)
    /\ events' = <<>>
    /\ UNCHANGED <<reconnectTimer, timers, payload, healthCheckInterval,
                   ollamaEndpoint, calls, health, switches, prompts, disposed,
                   userOps,
                   launcher, auth, stream,
                   byok, chat>>

-----------------------------------------------------------------------------

Next ==
    \/ \E c \in BagToSet(calls) : CheckRunningOk(c)
    \/ \E c \in BagToSet(calls) : CheckRunningFail(c)
    \/ \E c \in BagToSet(calls) : StartOllamaOk(c)
    \/ \E c \in BagToSet(calls) : StartOllamaFail(c)
    \/ \E c \in BagToSet(calls) : ConnectSuccess(c)
    \/ \E c \in BagToSet(calls) : ConnectFailure(c)
    \/ Connect
    \/ TimerFire
    \/ Reconnect
    \/ UpdateEndpoint
    \/ Retry
    \/ PromptClosed
    \/ HealthTick
    \/ HealthOk
    \/ HealthFail
    \/ SwitchRejected
    \/ SwitchBegin
    \/ \E modelName \in BagToSet(switches) : SwitchOk(modelName)
    \/ \E modelName \in BagToSet(switches) : SwitchFail(modelName)

Spec == Init /\ [][Next]_vars

\* The endpoint is unreachable from the start and nobody acts: every liveness
\* probe fails and the launcher reports failure; reconnect() is called only
\* once the manager has stopped retrying.
ReconnectWhenStopped ==
    /\ state.status = Disconnected
    /\ calls = EmptyBag
    /\ timers = {}
    /\ Reconnect

NextUnreachable ==
    \/ \E c \in BagToSet(calls) : CheckRunningFail(c)
    \/ \E c \in BagToSet(calls) : StartOllamaFail(c)
    \/ TimerFire
    \/ HealthTick
    \/ ReconnectWhenStopped

SpecUnreachable == Init /\ [][NextUnreachable]_vars

\* connect() with startOllama() step by step, the users making no call.
NextLauncher ==
    \/ \E c \in BagToSet(calls) : CheckRunningOk(c)
    \/ \E c \in BagToSet(calls) : CheckRunningFail(c)
    \/ \E c \in BagToSet(calls) : StartOllamaFail(c)
    \/ \E c \in BagToSet(calls) : ExecOk(c)
    \/ Tick
    \/ \E c \in BagToSet(calls) : PollOk(c)
    \/ PollFailEarly
    \/ \E c \in BagToSet(calls) : PollFailFinal(c)
    \/ StalePoll
    \/ \E c \in BagToSet(calls) : ConnectSuccess(c)
    \/ \E c \in BagToSet(calls) : ConnectFailure(c)
    \/ TimerFire
    \/ Retry
    \/ PromptClosed
    \/ HealthTick
    \/ HealthOk
    \/ HealthFail

SpecLauncher == Init /\ [][NextLauncher]_vars

\* The first retry of a run of failures: the timer armed with the initial delay.
FirstRetry ==
    /\ \E t \in timers : t.delay = INITIAL_RECONNECT_DELAY
    /\ TimerFire

\* connect() with startOllama() step by step, from the constructor's call to
\* the first retry, and the health checks; nobody answers the error prompt.
NextLive ==
    \/ \E c \in BagToSet(calls) : CheckRunningOk(c)
    \/ \E c \in BagToSet(calls) : CheckRunningFail(c)
    \/ \E c \in BagToSet(calls) : StartOllamaFail(c)
    \/ \E c \in BagToSet(calls) : ExecOk(c)
    \/ Tick
    \/ \E c \in BagToSet(calls) : PollOk(c)
    \/ PollFailEarly
    \/ \E c \in BagToSet(calls) : PollFailFinal(c)
    \/ StalePoll
    \/ \E c \in BagToSet(calls) : ConnectSuccess(c)
    \/ \E c \in BagToSet(calls) : ConnectFailure(c)
    \/ FirstRetry
    \/ HealthTick
    \/ HealthOk
    \/ HealthFail

\* what a step that has to happen changes
progress == <<calls, launcher, health>>

\* a suspended connect() resumes: the promise it awaits settles
CallStep ==
    \E c \in BagToSet(calls) :
        \/ CheckRunningOk(c) \/ CheckRunningFail(c)
        \/ StartOllamaFail(c) \/ ExecOk(c)
        \/ PollOk(c) \/ PollFailFinal(c)
        \/ ConnectSuccess(c) \/ ConnectFailure(c)

\* Each probe completes or times out, the install check calls back and the
\* polling interval fires while it is set.  Nothing is assumed of the
\* reconnect timer and of the health interval.
FairLauncher ==
    /\ WF_progress(CallStep)
    /\ WF_progress(Tick \/ PollFailEarly \/ StalePoll)
    /\ WF_progress(HealthOk \/ HealthFail)

LiveSpecLauncher == Init /\ [][NextLive]_vars /\ FairLauncher

(***************************************************************************)
(* OllamaAuthenticationService and OllamaStubTokenManager                  *)
(***************************************************************************)
\* the options a caller passes to a session getter
SessionOptions == {"none", "silent", "createIfNone", "forceNewSession"}

\* get isAuthenticated(), read from the cached session (the getter the
\* service overrides)
isAuthenticatedFromSession(a) == a.anyGitHubSession # NoSession

\* get isAuthenticated(): return true
isAuthenticated(a) == TRUE
\* get isChatEnabled(): return true
isChatEnabled(a) == TRUE
\* the value getAnyGitHubSession returns
anySession(a) == <<stubSession>>

\* a boolean as the caller sees it
BoolString(b) == IF b THEN "true" ELSE "false"

AuthReturn(name, o) ==
    [op |-> name, options |-> o, flag |-> "none", session |-> NoSession,
     token |-> Undefined]

\* the rest of the extension is untouched by the authentication service
AuthOnly ==
    UNCHANGED <<state, reconnectTimer, timers, healthCheckInterval,
                ollamaEndpoint, calls, health, switches, prompts, disposed,
                userOps, snapshot, payload, launcher, stream, byok, chat,
                events, lastOp>>

GetAnyGitHubSession(o) ==
    /\ auth.made < MaxAuthCalls
    /\ auth' = [auth EXCEPT
                  !.anyGitHubSession = anySession(auth),
                  !.made = @ + 1,
                  !.last = [AuthReturn("getAnyGitHubSession", o)
                                EXCEPT !.session = anySession(auth)]]
    /\ AuthOnly

\* awaits getAnyGitHubSession() and caches its result a second time
GetPermissiveGitHubSession(o) ==
    /\ auth.made < MaxAuthCalls
    /\ auth' = [auth EXCEPT
                  !.anyGitHubSession = anySession(auth),
                  !.permissiveGitHubSession = anySession(auth),
                  !.made = @ + 1,
                  !.last = [AuthReturn("getPermissiveGitHubSession", o)
                                EXCEPT !.session = anySession(auth)]]
    /\ AuthOnly

GetAnyAdoSession(o) ==
    /\ auth.made < MaxAuthCalls
    /\ auth' = [auth EXCEPT !.made = @ + 1,
                            !.last = AuthReturn("getAnyAdoSession", o)]
    /\ AuthOnly

GetAdoAccessTokenBase64(o) ==
    /\ auth.made < MaxAuthCalls
    /\ auth' = [auth EXCEPT !.made = @ + 1,
                            !.last = AuthReturn("getAdoAccessTokenBase64", o)]
    /\ AuthOnly

IsAuthenticated ==
    /\ auth.made < MaxAuthCalls
    /\ auth' = [auth EXCEPT
                  !.made = @ + 1,
                  !.last = [AuthReturn("isAuthenticated", "none")
                                EXCEPT !.flag = BoolString(isAuthenticated(auth))]]
    /\ AuthOnly

IsChatEnabled ==
    /\ auth.made < MaxAuthCalls
    /\ auth' = [auth EXCEPT
                  !.made = @ + 1,
                  !.last = [AuthReturn("isChatEnabled", "none")
                                EXCEPT !.flag = BoolString(isChatEnabled(auth))]]
    /\ AuthOnly

\* OllamaStubTokenManager.getCopilotToken: the token is created on first use
GetCopilotToken(force) ==
    /\ auth.made < MaxAuthCalls
    /\ auth' = [auth EXCEPT
                  !.stubToken = TRUE,
                  !.made = @ + 1,
                  !.last = [AuthReturn("getCopilotToken", force)
                                EXCEPT !.token = "ollama-local-token"]]
    /\ AuthOnly

\* BaseAuthenticationService._handleAuthChangeEvent, started by the
\* constructor and by the host's session-change events.  The base class owns
\* the two cached sessions; its code is not part of the repository, so it may
\* leave either of them set or cleared.
HandleAuthChangeEvent ==
    /\ auth.made < MaxAuthCalls
    /\ \E any \in {NoSession, <<stubSession>>},
          perm \in {NoSession, <<stubSession>>} :
          auth' = [auth EXCEPT
                     !.anyGitHubSession = any,
                     !.permissiveGitHubSession = perm,
                     !.made = @ + 1,
                     !.last = AuthReturn("_handleAuthChangeEvent", "none")]
    /\ AuthOnly

NextAuth ==
    \/ \E o \in SessionOptions : GetAnyGitHubSession(o)
    \/ \E o \in SessionOptions : GetPermissiveGitHubSession(o)
    \/ \E o \in SessionOptions : GetAnyAdoSession(o)
    \/ \E o \in SessionOptions : GetAdoAccessTokenBase64(o)
    \/ IsAuthenticated
    \/ IsChatEnabled
    \/ \E force \in {"none", "true", "false"} : GetCopilotToken(force)
    \/ HandleAuthChangeEvent

SpecAuth == Init /\ [][NextAuth]_vars

(***************************************************************************)
(* BYOKContrib: the registration of the Ollama language-model provider     *)
(***************************************************************************)
\* nothing else is touched by the contribution
BYOKOnly ==
    UNCHANGED <<state, reconnectTimer, timers, healthCheckInterval,
                ollamaEndpoint, calls, health, switches, prompts, disposed,
                userOps, snapshot, payload, launcher, auth, stream, chat,
                events, lastOp>>

\* authService.onDidAuthenticationChange fires: the listener calls _authChange
AuthenticationChange ==
    /\ byok.authChanges < MaxAuthChanges
    /\ byok' = [authChange(byok) EXCEPT !.last = "authChange"]
    /\ BYOKOnly

\* the user edits the endpoint setting read by getConfig(OllamaEndpoint)
ConfigurationChange(endpoint) ==
    /\ byok.config # endpoint
    /\ byok' = [byok EXCEPT !.config = endpoint, !.last = "configuration"]
    /\ BYOKOnly

\* the command 'ollama.code.configure': the settings are opened when the
\* provider map has the Ollama entry
Configure ==
    /\ byok.last # "configure.openSettings"
    /\ byok' = [byok EXCEPT !.last =
                   IF \E e \in byok.providers : e.name = "ollama"
                   THEN "configure.openSettings" ELSE "configure"]
    /\ BYOKOnly

\* the contribution next to the authentication service whose events it hears
NextBYOK ==
    \/ AuthenticationChange
    \/ \E endpoint \in Endpoints \cup {Undefined} : ConfigurationChange(endpoint)
    \/ Configure
    \/ NextAuth

SpecBYOK == Init /\ [][NextBYOK]_vars

(***************************************************************************)
(* Chat participant ids: chatAgents.ts                                     *)
(***************************************************************************)
CHAT_PARTICIPANT_ID_PREFIX == "ollama.code."

\* pieces the names and ids handed to the two functions are made of
NameParts == {"ollama.code.", "ollama.code", "ollamaXcode.", "Ollama.code.",
              "workspace", "x", "."}

\* the concatenations of at most n pieces
RECURSIVE Joined(_)
Joined(n) ==
    IF n = 0 THEN {""}
    ELSE Joined(n - 1) \cup {a \o b : a \in Joined(n - 1), b \in NameParts}
Names == Joined(MaxParts)

\* the regular expression /^ollama\.code\./ matches: the id starts with the
\* literal prefix
StartsWithPrefix(id) ==
    /\ Len(id) >= Len(CHAT_PARTICIPANT_ID_PREFIX)
    /\ SubSeq(id, 1, Len(CHAT_PARTICIPANT_ID_PREFIX)) = CHAT_PARTICIPANT_ID_PREFIX

\* `${CHAT_PARTICIPANT_ID_PREFIX}${name}`
getChatParticipantIdFromName(name) == CHAT_PARTICIPANT_ID_PREFIX \o name

\* a replace that strips the prefix as often as it finds it at the start
RECURSIVE getChatParticipantNameFromIdRepeated(_)
getChatParticipantNameFromIdRepeated(id) ==
    IF StartsWithPrefix(id)
    THEN getChatParticipantNameFromIdRepeated(
             SubSeq(id, Len(CHAT_PARTICIPANT_ID_PREFIX) + 1, Len(id)))
    ELSE id

\* id.replace(/^ollama\.code\./, ''): the one match at the start is removed
getChatParticipantNameFromId(id) ==
    IF StartsWithPrefix(id)
    THEN SubSeq(id, Len(CHAT_PARTICIPANT_ID_PREFIX) + 1, Len(id))
    ELSE id

\* nothing else is touched by the two functions
ChatOnly ==
    UNCHANGED <<state, reconnectTimer, timers, healthCheckInterval,
                ollamaEndpoint, calls, health, switches, prompts, disposed,
                userOps, snapshot, payload, launcher, auth, stream, byok,
                events, lastOp>>

IdFromName(name) ==
    /\ chat' = [op |-> "getChatParticipantIdFromName", input |-> name,
                output |-> getChatParticipantIdFromName(name)]
    /\ ChatOnly

NameFromId(id) ==
    /\ chat' = [op |-> "getChatParticipantNameFromId", input |-> id,
                output |-> getChatParticipantNameFromId(id)]
    /\ ChatOnly

\* the id just computed for a name is turned back into a name
NameFromIdOfName ==
    /\ chat.op = "getChatParticipantIdFromName"
    /\ chat' = [op |-> "roundTrip", input |-> chat.input,
                output |-> getChatParticipantNameFromId(chat.output)]
    /\ ChatOnly

NextChat ==
    \/ \E name \in Names : IdFromName(name)
    \/ \E id \in Names : NameFromId(id)
    \/ NameFromIdOfName

SpecChat == Init /\ [][NextChat]_vars

(***************************************************************************)
(* pullModelWithProgress and performBenchmark: the streaming loops         *)
(***************************************************************************)
\* lines the backend's stream is made of
LineManifest == "{\"status\":\"pulling manifest\"}"
LineHalf == "{\"status\":\"downloading\",\"completed\":1,\"total\":2}"
LineFull == "{\"status\":\"downloading\",\"completed\":2,\"total\":2}"
LineToken == "{\"response\":\"x\"}"
LineNull == "null"
LineGarbage == "not json"
LineCut == "{\"status\":\"downlo"
LineBlank == " "
Lines == {LineManifest, LineHalf, LineFull, LineToken, LineNull, LineGarbage,
          LineCut, LineBlank}

\* chunk.split('\n'): the lines of one chunk, at most MaxLines of them
RECURSIVE SeqsUpTo(_, _)
SeqsUpTo(S, n) ==
    IF n = 0 THEN {<<>>}
    ELSE SeqsUpTo(S, n - 1)
         \cup {Append(q, x) : q \in {r \in SeqsUpTo(S, n - 1) : Len(r) = n - 1},
                              x \in S}
Chunks == SeqsUpTo(Lines, MaxLines)

\* JSON.parse(line): ok is FALSE when it throws SyntaxError
ParsedObject == [ok |-> TRUE, isNull |-> FALSE, status |-> "", completed |-> 0,
                 total |-> 0, response |-> ""]
JSONparse(line) ==
    CASE line = LineManifest ->
           [ParsedObject EXCEPT !.status = "pulling manifest"]
      [] line = LineHalf ->
           [ParsedObject EXCEPT !.status = "downloading", !.completed = 1,
                                !.total = 2]
      [] line = LineFull ->
           [ParsedObject EXCEPT !.status = "downloading", !.completed = 2,
                                !.total = 2]
      [] line = LineToken -> [ParsedObject EXCEPT !.response = "x"]
      [] line = LineNull -> [ParsedObject EXCEPT !.isNull = TRUE]
      [] OTHER -> [ParsedObject EXCEPT !.ok = FALSE]

\* line.trim() is the empty string
IsBlank(line) == line \in {"", LineBlank}
\* .filter(line => line.trim())
NonBlank(lines) == SelectSeq(lines, LAMBDA l : ~IsBlank(l))

\* Math.round((completed / total) * 100)
Percent(completed, total) == (200 * completed + total) \div (2 * total)

\* the body of the pull's for loop with the catch rethrowing
PullLineAborts(acc, line) ==
    LET data == JSONparse(line) IN
    IF ~data.ok THEN [acc EXCEPT !.thrown = "SyntaxError"]
    ELSE IF data.isNull \/ data.status = "" THEN acc
    ELSE IF data.completed # 0 /\ data.total # 0
    THEN LET percent == Percent(data.completed, data.total) IN
         IF percent > acc.lastPercent
         THEN [acc EXCEPT
                 !.reports = Append(@,
                     [increment |-> percent - acc.lastPercent,
                      message |-> data.status \o " (" \o ToString(percent)
                                    \o "%)"]),
                 !.lastPercent = percent]
         ELSE acc
    ELSE [acc EXCEPT !.reports =
              Append(@, [increment |-> NoIncrement, message |-> data.status])]

\* the body of the pull's for loop reporting every percentage it reads
PullLineEveryPercent(acc, line) ==
    LET data == JSONparse(line) IN
    IF ~data.ok THEN acc
    ELSE IF data.isNull \/ data.status = "" THEN acc
    ELSE IF data.completed # 0 /\ data.total # 0
    THEN LET percent == Percent(data.completed, data.total) IN
         [acc EXCEPT
            !.reports = Append(@,
                [increment |-> percent - acc.lastPercent,
                 message |-> data.status \o " (" \o ToString(percent)
                               \o "%)"]),
            !.lastPercent = percent]
    ELSE [acc EXCEPT !.reports =
              Append(@, [increment |-> NoIncrement, message |-> data.status])]

\* the body of the pull's for loop: try { JSON.parse ... } catch { skip }.
\* Reading a field of null throws inside the try as well.
PullLine(acc, line) ==
    LET data == JSONparse(line) IN
    IF ~data.ok THEN acc
    ELSE IF data.isNull \/ data.status = "" THEN acc
    ELSE IF data.completed # 0 /\ data.total # 0
    THEN LET percent == Percent(data.completed, data.total) IN
         IF percent > acc.lastPercent
         THEN [acc EXCEPT
                 !.reports = Append(@,
                     [increment |-> percent - acc.lastPercent,
                      message |-> data.status \o " (" \o ToString(percent)
                                    \o "%)"]),
                 !.lastPercent = percent]
         ELSE acc
    ELSE [acc EXCEPT !.reports =
              Append(@, [increment |-> NoIncrement, message |-> data.status])]

\* the body of the benchmark's for loop
BenchLine(acc, line) ==
    LET data == JSONparse(line) IN
    IF ~data.ok THEN acc
    ELSE IF data.isNull \/ data.response = "" THEN acc
    ELSE [acc EXCEPT
            !.firstToken = TRUE,
            !.fullResponse = @ \o data.response,
            !.tokenCount = @ + 1,
            !.reports = Append(@,
                [increment |-> NoIncrement,
                 message |-> "Generating... (" \o ToString(acc.tokenCount + 1)
                               \o " tokens)"])]

\* for (const line of lines): an exception leaving the body ends the loop
RECURSIVE PullLines(_, _)
PullLines(acc, lines) ==
    IF lines = <<>> \/ acc.thrown # Undefined THEN acc
    ELSE PullLines(PullLine(acc, Head(lines)), Tail(lines))

RECURSIVE BenchLines(_, _)
BenchLines(acc, lines) ==
    IF lines = <<>> \/ acc.thrown # Undefined THEN acc
    ELSE BenchLines(BenchLine(acc, Head(lines)), Tail(lines))

\* one chunk through the loop of the running operation
ProcessChunk(kind, acc, chunk) ==
    IF kind = "pull" THEN PullLines(acc, NonBlank(chunk))
    ELSE BenchLines(acc, NonBlank(chunk))

SuccessOutcome(kind, model) ==
    IF kind = "pull" THEN "Successfully pulled " \o model ELSE "result"
FailureOutcome(kind, message) ==
    IF kind = "pull" THEN "Failed to pull model: " \o message
    ELSE "Benchmark failed: Error: " \o message

\* the connection manager is untouched by a pull or a benchmark
StreamOnly ==
    UNCHANGED <<state, reconnectTimer, timers, healthCheckInterval,
                ollamaEndpoint, calls, health, switches, prompts, disposed,
                userOps, snapshot, payload, launcher, auth, byok, chat,
                events, lastOp>>

\* pullModelWithProgress / performBenchmark up to the await of fetch
StreamStart(kind, model) ==
    /\ stream.kind = "none"
    /\ stream' = [NoStream EXCEPT
                    !.kind = kind, !.model = model, !.phase = "fetching",
                    !.last = "start",
                    !.acc = IF kind = "benchmark"
                            THEN [NoProgress EXCEPT !.reports =
                                    <<[increment |-> NoIncrement,
                                       message |-> "Starting benchmark..."]>>]
                            ELSE NoProgress]
    /\ StreamOnly

\* fetch resolves: a response without body throws; otherwise the loop tests
\* the cancellation token and starts the first read
StreamResponse(hasBody) ==
    /\ stream.phase = "fetching"
    /\ stream' = IF hasBody /\ stream.cancelled
                 THEN [stream EXCEPT !.phase = "done", !.last = "response",
                                     !.acc.reports = <<>>,
                                     !.outcome = "Cancelled"]
                 ELSE IF hasBody
                 THEN [stream EXCEPT !.phase = "reading", !.last = "response",
                                     !.acc.reports = <<>>]
                 ELSE [stream EXCEPT
                         !.phase = "done", !.last = "error",
                         !.acc.reports = <<>>,
                         !.outcome = FailureOutcome(stream.kind,
                                                    "No response body")]
    /\ StreamOnly

\* fetch or reader.read() rejects
StreamError ==
    /\ stream.phase \in {"fetching", "reading"}
    /\ stream' = [stream EXCEPT
                    !.phase = "done", !.last = "error", !.acc.reports = <<>>,
                    !.outcome = FailureOutcome(stream.kind, "fetch failed")]
    /\ StreamOnly

\* the user cancels the pull's progress notification
StreamCancel ==
    /\ stream.kind = "pull"
    /\ stream.phase \in {"fetching", "reading"}
    /\ ~stream.cancelled
    /\ stream' = [stream EXCEPT !.cancelled = TRUE, !.last = "cancel",
                                !.acc.reports = <<>>]
    /\ StreamOnly

\* reader.read() resolves with a chunk: its lines go through the loop, then
\* the next iteration tests the cancellation token and reads again
StreamRead(chunk) ==
    /\ stream.phase = "reading"
    /\ stream.reads < MaxChunks
    /\ LET before == [stream.acc EXCEPT !.reports = <<>>]
           after == ProcessChunk(stream.kind, before, chunk)
       IN stream' =
            [stream EXCEPT
               !.last = "read", !.chunk = chunk, !.reads = @ + 1,
               !.pre = before, !.acc = after,
               !.phase = IF after.thrown # Undefined \/ stream.cancelled
                         THEN "done" ELSE "reading",
               !.outcome = IF after.thrown # Undefined
                           THEN FailureOutcome(stream.kind, after.thrown)
                           ELSE IF stream.cancelled THEN "Cancelled"
                           ELSE Undefined]
    /\ StreamOnly

\* reader.read() resolves with done: the loop breaks and the operation ends
StreamEnd ==
    /\ stream.phase = "reading"
    /\ stream' = [stream EXCEPT
                    !.phase = "done", !.last = "end", !.acc.reports = <<>>,
                    !.outcome = SuccessOutcome(stream.kind, stream.model)]
    /\ StreamOnly

NextStream ==
    \/ \E kind \in {"pull", "benchmark"}, model \in {"a", "b"} :
          StreamStart(kind, model)
    \/ \E hasBody \in BOOLEAN : StreamResponse(hasBody)
    \/ StreamError
    \/ StreamCancel
    \/ \E chunk \in Chunks : StreamRead(chunk)
    \/ StreamEnd

SpecStream == Init /\ [][NextStream]_vars

\* The same program with dispose() among the calls a user makes.
NextTeardown ==
    \/ Next
    \/ Dispose

SpecTeardown == Init /\ [][NextTeardown]_vars

\* The same program with a caller of getState() that writes to what it got;
\* the users make one call.
InitSnapshot == InitWith("none", MaxUserOps - 1)

NextSnapshot ==
    \/ Next
    \/ GetState
    \/ CallerAssign
    \/ CallerPush

SpecSnapshot == InitSnapshot /\ [][NextSnapshot]_vars

\* The same program with an observer of status-changed that keeps the payload
\* it receives for one status; the users make one call.
InitObserver == \E want \in ConnectionStatus : InitWith(want, MaxUserOps - 1)

SpecObserver == InitObserver /\ [][Next]_vars

-----------------------------------------------------------------------------
(* Recovery: the manager with its timers, its health checks and one call   *)
(* by a user, every pending step of which is eventually taken              *)

\* a suspended connect() resumes, startOllama() taken as one step
AttemptStep ==
    \E c \in BagToSet(calls) :
        \/ CheckRunningOk(c) \/ CheckRunningFail(c)
        \/ StartOllamaOk(c) \/ StartOllamaFail(c)
        \/ ConnectSuccess(c) \/ ConnectFailure(c)

\* a probe of the backend fails: /api/version of checkOllamaRunning,
\* /api/tags, or the health check's /api/version
ProbeFailure ==
    \/ \E c \in BagToSet(calls) : CheckRunningFail(c) \/ ConnectFailure(c)
    \/ HealthFail

\* scheduleReconnect gave up at MAX_RECONNECT_ATTEMPTS: nothing is pending
Parked ==
    /\ state.status = Disconnected
    /\ state.reconnectAttempts >= MAX_RECONNECT_ATTEMPTS
    /\ calls = EmptyBag
    /\ timers = {}

InitRecovery == InitWith("none", MaxUserOps - 1)

NextRecovery ==
    \/ \E c \in BagToSet(calls) : CheckRunningOk(c)
    \/ \E c \in BagToSet(calls) : CheckRunningFail(c)
    \/ \E c \in BagToSet(calls) : StartOllamaOk(c)
    \/ \E c \in BagToSet(calls) : StartOllamaFail(c)
    \/ \E c \in BagToSet(calls) : ConnectSuccess(c)
    \/ \E c \in BagToSet(calls) : ConnectFailure(c)
    \/ TimerFire
    \/ Retry
    \/ PromptClosed
    \/ HealthTick
    \/ HealthOk
    \/ HealthFail
    \/ Connect
    \/ Reconnect
    \/ UpdateEndpoint

\* what a step that has to happen changes
pending == <<state, calls, timers, health>>

\* Timers fire and in-flight probes complete.  Nothing is assumed of the
\* health interval, of the users and of the answer to the error prompt.
FairRecovery ==
    /\ WF_pending(AttemptStep)
    /\ WF_pending(TimerFire)
    /\ WF_pending(HealthOk \/ HealthFail)

LiveSpecRecovery == InitRecovery /\ [][NextRecovery]_vars /\ FairRecovery

-----------------------------------------------------------------------------
(* Properties *)

EventTypes == {events[k].type : k \in DOMAIN events}

\* C1: whenever scheduleReconnect arms a reconnect timer, with N the value of
\* reconnectAttempts after its increment, N >= 1 and the timer's delay is
\* min(1000 * 2^(N-1), 30000): 1000, 2000, 4000, 8000, 16000, then 30000.
C1_BackoffDelay ==
    \A k \in DOMAIN events :
        events[k].type = "setTimeout" =>
            LET N == state.reconnectAttempts
            IN /\ N >= 1
               /\ events[k].delay = <<1000, 2000, 4000, 8000, 16000, 30000,
                                      30000, 30000, 30000, 30000>>[N]
               /\ events[k].delay = Min(1000 * 2^(N - 1), 30000)
               /\ timers = {[handle |-> events[k].handle, delay |-> events[k].delay]}

C1_Witness ==
    /\ "setTimeout" \in EventTypes
    /\ state.reconnectAttempts = 6
    /\ \E t \in timers : t.delay = 30000

\* C2: a connect() that succeeds returns true and leaves status Connected,
\* reconnectAttempts 0 whatever it was, lastError absent,
\* lastSuccessfulConnection set and availableModels the backend's model names
\* in the backend's order (empty when it reports none).
C2_SuccessfulConnect ==
    (lastOp.op = "connect" /\ lastOp.ret = "true") =>
        /\ state.status = Connected
        /\ state.reconnectAttempts = 0
        /\ state.lastError = Undefined
        /\ state.lastSuccessfulConnection # NoDate
        /\ Len(state.availableModels) = Len(lastOp.body.models)
        /\ \A k \in DOMAIN lastOp.body.models :
              state.availableModels[k] = lastOp.body.models[k].name

C2_Witness ==
    /\ lastOp.op = "connect"
    /\ lastOp.ret = "true"
    /\ lastOp.pre.reconnectAttempts = 3
    /\ state.availableModels = <<"a", "b">>

\* C3: in every reachable state, status == Connected implies lastError is
\* absent and reconnectAttempts == 0.
C3_ConnectedInvariant ==
    state.status = Connected =>
        (state.lastError = Undefined /\ state.reconnectAttempts = 0)

C3_Witness ==
    /\ state.status = Connected
    /\ lastOp.op = "connect"
    /\ lastOp.pre.status = Reconnecting
    /\ lastOp.pre.reconnectAttempts > 0
    /\ lastOp.pre.lastError # Undefined

\* C4 as stated: a health-check failure while status is Connected leaves the
\* status Disconnected with exactly one reconnect timer pending.
C4_AsStated ==
    (lastOp.op = "healthFail" /\ lastOp.pre.status = Connected) =>
        (state.status = Disconnected /\ Cardinality(timers) = 1)

\* C4, amended: a health-check failure while status is Connected notifies
\* Disconnected ('Connection lost') and, in the same step, moves on to
\* Reconnecting with reconnectAttempts 1 and exactly one reconnect timer
\* pending, of 1000ms; and no state has more than one reconnect timer pending.
C4_HealthFailure ==
    /\ Cardinality(timers) <= 1
    /\ (lastOp.op = "healthFail" /\ lastOp.pre.status = Connected) =>
          /\ Len(events) = 3
          /\ events[1].type = "statusChanged"
          /\ events[1].payload.status = Disconnected
          /\ events[1].payload.lastError = "Connection lost"
          /\ events[2].type = "statusChanged"
          /\ events[2].payload.status = Reconnecting
          /\ events[3].type = "setTimeout"
          /\ state.status = Reconnecting
          /\ state.reconnectAttempts = 1
          /\ Cardinality(timers) = 1
          /\ \A t \in timers : t.delay = 1000 /\ t.handle = reconnectTimer

\* a health check fails in Connected after an earlier reconnect timer had
\* been armed
C4_Witness ==
    /\ lastOp.op = "healthFail"
    /\ lastOp.pre.status = Connected
    /\ lastOp.pre.lastSuccessfulConnection # NoDate
    /\ reconnectTimer = 2
    /\ Cardinality(timers) = 1

FailedAttempt(op) ==
    \/ (op.op = "connect" /\ op.ret = "false")
    \/ op.op = "healthFail"

\* C5 as stated: once reconnectAttempts has reached the ceiling of 10, a
\* further failure schedules no reconnect timer and leaves the manager
\* Disconnected with no timer pending (until an explicit retry).
C5_AsStated ==
    (FailedAttempt(lastOp) /\ lastOp.pre.reconnectAttempts = 10) =>
        /\ "setTimeout" \notin EventTypes
        /\ state.status = Disconnected
        /\ timers = {}

\* C6 as stated: with the endpoint unreachable and no user action the statuses
\* observed are Starting and Disconnected only.
C6_AsStated ==
    \A k \in DOMAIN events :
        events[k].type = "statusChanged" =>
            events[k].payload.status \in {Starting, Disconnected}

\* C6, amended: with the endpoint unreachable from the start and no user
\* action, the statuses observed are Starting, Disconnected,
\* Reconnecting(attempt 1, 1000ms), Starting, Disconnected,
\* Reconnecting(attempt 2, 2000ms), ... up to attempt 10 (30000ms from attempt
\* 6 on), then Starting, Disconnected, and the manager stays Disconnected
\* with no timer and no attempt in flight until reconnect() is called.
C6_UnreachableSequence ==
    /\ [](/\ lastOp.op \in {"constructor", "timer", "reconnect"} =>
                /\ Len(events) = 2
                /\ events[1].type = "statusChanged"
                /\ events[1].payload.status = Starting
                /\ events[2].type = "fetch"
                /\ state.status = Starting
          /\ (FailedAttempt(lastOp) /\ lastOp.pre.reconnectAttempts < 10) =>
                LET N == lastOp.pre.reconnectAttempts + 1
                    delay == <<1000, 2000, 4000, 8000, 16000, 30000,
                               30000, 30000, 30000, 30000>>[N]
                IN /\ lastOp.pre.status = Starting
                   /\ Len(events) = 3
                   /\ events[1].type = "statusChanged"
                   /\ events[1].payload.status = Disconnected
                   /\ events[2].type = "statusChanged"
                   /\ events[2].payload.status = Reconnecting
                   /\ events[2].payload.reconnectAttempts = N
                   /\ events[3].type = "setTimeout"
                   /\ events[3].delay = delay
                   /\ state.status = Reconnecting
                   /\ state.reconnectAttempts = N
                   /\ timers = {[handle |-> reconnectTimer, delay |-> delay]}
          /\ (FailedAttempt(lastOp) /\ lastOp.pre.reconnectAttempts >= 10) =>
                /\ lastOp.pre.status = Starting
                /\ Len(events) = 2
                /\ events[1].type = "statusChanged"
                /\ events[1].payload.status = Disconnected
                /\ events[2].type = "prompt"
          /\ state.status = Disconnected =>
                /\ state.reconnectAttempts = 10
                /\ timers = {}
                /\ calls = EmptyBag)
    /\ [][state.status = Disconnected =>
             \/ lastOp'.op = "reconnect"
             \/ (state' = state /\ timers' = timers /\ calls' = calls
                 /\ events' = <<>>)]_vars

\* the attempt after the tenth retry has failed
C6_Witness ==
    /\ FailedAttempt(lastOp)
    /\ lastOp.pre.reconnectAttempts = 10
    /\ state.status = Disconnected
    /\ timers = {}
    /\ prompts = 1
    /\ userOps = 0

\* C7: switchModel(name) called when status != Connected, or with a name not
\* in availableModels, sends no request, returns false, leaves currentModel
\* (and the whole state) unchanged and emits no model-changed notification.
C7_SwitchRejected ==
    (/\ lastOp.op = "switchModel"
     /\ \/ lastOp.pre.status # Connected
        \/ \A k \in DOMAIN lastOp.pre.availableModels :
              lastOp.pre.availableModels[k] # lastOp.arg) =>
        /\ lastOp.ret = "false"
        /\ events = <<>>
        /\ state.currentModel = lastOp.pre.currentModel
        /\ state = lastOp.pre

\* rejected while Connected with a current model, for a name the backend
\* did not report
C7_Witness ==
    /\ lastOp.op = "switchModel"
    /\ lastOp.ret = "false"
    /\ lastOp.arg = "c"
    /\ state.status = Connected
    /\ state.availableModels = <<"a", "b">>
    /\ state.currentModel = "b"

\* C8: a switchModel(name) whose validation request returns OK sets
\* currentModel to name, emits model-changed exactly once, carrying name, and
\* returns true; no other operation emits model-changed.
C8_SwitchSucceeds ==
    /\ (lastOp.op = "switchModel.response" /\ lastOp.ret = "true") =>
          /\ state.currentModel = lastOp.arg
          /\ events = <<[type |-> "modelChanged", payload |-> lastOp.arg]>>
    /\ "modelChanged" \in EventTypes =>
          (lastOp.op = "switchModel.response" /\ lastOp.ret = "true")

C8_Witness ==
    /\ lastOp.op = "switchModel.response"
    /\ lastOp.ret = "true"
    /\ lastOp.arg = "b"
    /\ lastOp.pre.currentModel = Undefined
    /\ state.currentModel = "b"

\* C9: when switchModel's validation request fails, switchModel returns false,
\* currentModel keeps its previous value and no model-changed notification
\* is emitted.
C9_SwitchValidationFails ==
    (lastOp.op = "switchModel.response" /\ lastOp.ret = "false") =>
        /\ state.currentModel = lastOp.pre.currentModel
        /\ "modelChanged" \notin EventTypes

C9_Witness ==
    /\ lastOp.op = "switchModel.response"
    /\ lastOp.ret = "false"
    /\ lastOp.arg = "b"
    /\ state.currentModel = Undefined
    /\ state.status = Connected

IsSwitchOp(op) == op.op \in {"switchModel", "switchModel.response"}

\* C10: no outcome of switchModel (rejected, request sent, validation failed,
\* validation succeeded) changes status, reconnectAttempts, lastError,
\* availableModels or the reconnect timer, and none emits status-changed.
C10_SwitchFrame ==
    [][IsSwitchOp(lastOp') =>
          /\ state'.status = state.status
          /\ state'.reconnectAttempts = state.reconnectAttempts
          /\ state'.lastError = state.lastError
          /\ state'.availableModels = state.availableModels
          /\ timers' = timers
          /\ reconnectTimer' = reconnectTimer
          /\ \A k \in DOMAIN events' : events'[k].type # "statusChanged"]_vars

\* a switch completes while a reconnect timer is pending
C10_Witness ==
    /\ lastOp.op = "switchModel.response"
    /\ lastOp.ret = "true"
    /\ timers # {}
    /\ state.status = Connected

\* C11 as stated: when a connect() succeeds after at least one prior
\* reconnect attempt, the 'reconnected' message is shown exactly once.  (With
\* no user call the counter at the end of the attempt is the counter the
\* attempt started with.)
C11_AsStated ==
    (/\ lastOp.op = "connect"
     /\ lastOp.ret = "true"
     /\ lastOp.pre.reconnectAttempts > 0
     /\ userOps = 0) =>
        Len(SelectSeq(events, LAMBDA e : e.type = "info")) = 1

\* C12: in every reachable state at most one reconnect timer is pending, and
\* it is the one this.reconnectTimer refers to: every scheduling cancels the
\* previously scheduled timer first.
C12_SingleTimer ==
    /\ Cardinality(timers) <= 1
    /\ \A t \in timers : t.handle = reconnectTimer
    /\ "setTimeout" \in EventTypes =>
          \E t \in timers : timers = {t} /\ events[Len(events)].handle = t.handle

\* a retry is scheduled by a failure that found the status Reconnecting, that
\* is, while the timer of an earlier scheduling was still pending
C12_Witness ==
    /\ FailedAttempt(lastOp)
    /\ lastOp.pre.status = Reconnecting
    /\ lastOp.pre.reconnectAttempts < 10
    /\ "setTimeout" \in EventTypes
    /\ Cardinality(timers) = 1

\* the first segment of a call of the public connect() / of updateEndpoint()
ManualAttempt(op) ==
    \/ (op.op = "connect" /\ op.ret = "pending" /\ op.arg = "called")
    \/ op.op = "updateEndpoint"

\* C13 as stated: a manual attempt through connect() or updateEndpoint() has
\* cancelled any pending reconnect timer when it issues its probe.
C13_AsStated ==
    (ManualAttempt(lastOp) /\ "fetch" \in EventTypes) => timers = {}

\* C14 as stated: at no time are two connect() attempts in flight.
C14_AsStated == BagCardinality(calls) <= 1

\* C15 as stated: status == Connected implies no reconnect timer is pending.
C15_AsStated == state.status = Connected => timers = {}

\* C16: a health-check tick issues a liveness probe exactly if status ==
\* Connected when the tick runs; a tick in any other status issues no probe
\* and changes nothing; a tick never writes the state or the reconnect timer.
C16_HealthTickGuard ==
    [][lastOp'.op = "healthTick" =>
          /\ state' = state
          /\ timers' = timers
          /\ reconnectTimer' = reconnectTimer
          /\ calls' = calls
          /\ switches' = switches
          /\ prompts' = prompts
          /\ healthCheckInterval' = healthCheckInterval
          /\ IF state.status = "connected"
             THEN /\ health' = "probing"
                  /\ events' = <<[type |-> "fetch", url |-> ollamaEndpoint,
                                  path |-> "/api/version"]>>
             ELSE /\ health' = health
                  /\ events' = <<>>]_vars

\* a tick while a retry is scheduled
C16_Witness ==
    /\ lastOp.op = "healthTick"
    /\ state.status = Reconnecting
    /\ timers # {}
    /\ events = <<>>
    /\ health = "idle"

StatusNotifications == SelectSeq(events, LAMBDA e : e.type = "statusChanged")

\* C20: status-changed fires on every transition: while the manager is in
\* use, a step that changes the status field emits, in that step, exactly one
\* status-changed notification carrying the new status, and it is the step's
\* last one; a step that emits none leaves the status as it was.
C20_StatusChangedOnTransition ==
    LET notes == StatusNotifications
    IN /\ Len(notes) = 0 => state.status = lastOp.pre.status
       /\ Len(notes) > 0 => notes[Len(notes)].payload.status = state.status
       /\ state.status # lastOp.pre.status =>
             Cardinality({k \in DOMAIN notes :
                             notes[k].payload.status = state.status}) = 1

\* the Retry of the error prompt takes the status from Disconnected to Starting
C20_Witness ==
    /\ lastOp.op = "retry"
    /\ lastOp.pre.status = Disconnected
    /\ state.status = Starting
    /\ Len(StatusNotifications) = 1

\* C17: after dispose() the reconnect timer and the health interval are
\* cancelled, and no step changes the state, notifies an observer or
\* schedules a timer, also when dispose() came while a connect() or a health
\* probe was in flight or before the initial connect() completed.
C17_AsStated ==
    disposed =>
        /\ timers = {}
        /\ ~healthCheckInterval
        /\ lastOp.op # "dispose" =>
              /\ state = lastOp.pre
              /\ "setTimeout" \notin EventTypes
              /\ "statusChanged" \notin EventTypes

CallerOps == {"caller.assign", "caller.push"}

\* C18: getState() returns an immutable snapshot: a write by the caller to
\* the returned value, to a field or to its availableModels sequence, leaves
\* the manager's state as it was, and a step of the manager leaves a returned
\* value as it was.
C18_AsStated ==
    [][/\ lastOp'.op \in CallerOps => state' = state
       /\ (snapshot.taken /\ lastOp'.op \notin CallerOps /\ lastOp'.op # "getState")
             => snapshot'.value = snapshot.value]_vars

\* C19: the value an observer of status-changed received is an immutable
\* snapshot: no later operation of the manager alters a field of it.
C19_AsStated == payload.held => payload.now = payload.asDelivered

\* C21: every failed connect() returns false with lastError set; when
\* reconnectAttempts was below 10 it ends with the counter incremented by
\* one, status Reconnecting and exactly one reconnect timer pending, armed in
\* that step.
C21_FailedConnect ==
    LET failed == \E k \in DOMAIN StatusNotifications :
                     StatusNotifications[k].payload.status = Disconnected
    IN /\ (lastOp.op = "connect" /\ failed) => lastOp.ret = "false"
       /\ (lastOp.op = "connect" /\ lastOp.ret = "false") =>
             /\ failed
             /\ state.lastError # Undefined
             /\ lastOp.pre.reconnectAttempts < MAX_RECONNECT_ATTEMPTS =>
                   /\ state.reconnectAttempts = lastOp.pre.reconnectAttempts + 1
                   /\ state.status = Reconnecting
                   /\ Cardinality(timers) = 1
                   /\ "setTimeout" \in EventTypes

C21_Witness ==
    /\ lastOp.op = "connect"
    /\ lastOp.ret = "false"
    /\ lastOp.pre.reconnectAttempts = 3
    /\ state.reconnectAttempts = 4
    /\ \E t \in timers : t.delay = 8000

\* C22: updateEndpoint(url) replaces the base URL and runs the cycle of
\* reconnect(): the counter is 0, no reconnect timer is pending, the status
\* is Starting (notified) and the liveness probe goes to url; every probe a
\* step issues goes to the base URL configured at that step.
C22_UpdateEndpoint ==
    /\ \A k \in DOMAIN events :
          events[k].type = "fetch" => events[k].url = ollamaEndpoint
    /\ lastOp.op = "updateEndpoint" =>
          /\ ollamaEndpoint = lastOp.arg
          /\ state.reconnectAttempts = 0
          /\ timers = {}
          /\ state.status = Starting
          /\ events = <<StatusChanged(state), Fetch(lastOp.arg, "/api/version")>>

C22_Witness ==
    /\ lastOp.op = "updateEndpoint"
    /\ lastOp.arg # DefaultEndpoint
    /\ lastOp.pre.status = Reconnecting
    /\ lastOp.pre.reconnectAttempts = 2
    /\ timers = {}

\* C23: when the reconnect timer fires or reconnect() is called, the status
\* becomes Starting and is notified before the probe is issued; reconnect()
\* has reset reconnectAttempts to 0 by then, a timer-fired attempt leaves the
\* counter as it was.
C23_AttemptBegins ==
    lastOp.op \in {"timer", "reconnect"} =>
        /\ state.status = Starting
        /\ Len(events) = 2
        /\ events[1] = StatusChanged(state)
        /\ events[2].type = "fetch"
        /\ lastOp.op = "timer" => state.reconnectAttempts = lastOp.pre.reconnectAttempts
        /\ lastOp.op = "reconnect" => state.reconnectAttempts = 0

C23_Witness ==
    /\ lastOp.op = "reconnect"
    /\ lastOp.pre.reconnectAttempts = 2
    /\ lastOp.pre.status = Reconnecting
    /\ events[1].payload.reconnectAttempts = 0

\* C24: a successful health probe, slow or not, makes no transition: it
\* changes latency only, leaves the other fields of the state and the
\* reconnect timer as they were and emits no status-changed notification.
C24_HealthSuccessFrame ==
    [][lastOp'.op = "healthOk" =>
          /\ state' = [state EXCEPT !.latency = state'.latency]
          /\ state'.latency \in HealthLatencies
          /\ timers' = timers
          /\ reconnectTimer' = reconnectTimer
          /\ events' = <<>>]_vars

C24_Witness ==
    /\ lastOp.op = "healthOk"
    /\ state.latency = 1500
    /\ state.status = Connected
    /\ lastOp.pre.latency = 20

\* C29: 0 <= reconnectAttempts <= 10 in every reachable state; a step
\* increments the counter by one only from below 10, and otherwise leaves it
\* or resets it to 0.
C29_AttemptsBounded ==
    /\ state.reconnectAttempts \in 0..MAX_RECONNECT_ATTEMPTS
    /\ \/ state.reconnectAttempts \in {0, lastOp.pre.reconnectAttempts}
       \/ /\ lastOp.pre.reconnectAttempts < MAX_RECONNECT_ATTEMPTS
          /\ state.reconnectAttempts = lastOp.pre.reconnectAttempts + 1

\* a failure at the ceiling leaves the counter at 10
C29_Witness ==
    /\ FailedAttempt(lastOp)
    /\ lastOp.pre.reconnectAttempts = MAX_RECONNECT_ATTEMPTS
    /\ state.reconnectAttempts = MAX_RECONNECT_ATTEMPTS

\* C30: while the manager is in use, status Reconnecting implies that a
\* reconnect timer is pending.
C30_ReconnectingHasTimer == state.status = Reconnecting => timers # {}

\* a step that neither arms nor consumes the timer, taken while Reconnecting
C30_Witness ==
    /\ state.status = Reconnecting
    /\ lastOp.op = "healthOk"
    /\ Cardinality(timers) = 1

\* C27: during auto-launch the launcher issues at most 10 liveness polls
\* before it reports failure, also when polls overlap; it reports success as
\* soon as a poll finds the backend reachable, and the interval is cleared
\* once it has reported.
C27_AsStated ==
    /\ launcher.attempts <= maxAttempts
    /\ (lastOp.op = "connect" /\ lastOp.ret = "pending" /\ lastOp.arg = "started")
          => ~launcher.interval
    /\ (lastOp.op = "connect" /\ lastOp.ret = "false") => ~launcher.interval

\* C25: every connect() eventually completes with true or false and every
\* health check ends, given that each probe completes or times out, the
\* install check calls back and the polling interval keeps firing: again and
\* again no connect() is pending and no health probe is out, and the step
\* that ends the last pending connect() is its return of true or false.
C25_ConnectCompletes ==
    /\ []<>(calls = EmptyBag)
    /\ []<>(health = "idle")
    /\ [][(calls # EmptyBag /\ calls' = EmptyBag)
            => (lastOp'.op = "connect" /\ lastOp'.ret \in {"true", "false"})]_vars

\* a connect() that went through the whole polling of the launcher returned
C25_Witness ==
    /\ lastOp.op = "connect"
    /\ lastOp.ret = "false"
    /\ calls = EmptyBag
    /\ launcher.attempts >= maxAttempts
    /\ launcher.stale > 0

\* C26: the authentication service reports isAuthenticated and isChatEnabled
\* true in every state, whatever sessions and token it holds, and a call of
\* getAnyGitHubSession or getPermissiveGitHubSession returns the stub
\* session, whatever was called before and whatever options are passed.
C26_AlwaysAuthenticated ==
    /\ isAuthenticated(auth)
    /\ isChatEnabled(auth)
    /\ auth.last.op = "isAuthenticated" => auth.last.flag = "true"
    /\ auth.last.op = "isChatEnabled" => auth.last.flag = "true"
    /\ auth.last.op \in {"getAnyGitHubSession", "getPermissiveGitHubSession"}
          => /\ auth.last.session = <<stubSession>>
             /\ auth.anyGitHubSession = <<stubSession>>
    /\ auth.last.op = "getPermissiveGitHubSession"
          => auth.permissiveGitHubSession = <<stubSession>>

\* isAuthenticated read, after other calls, while no session is cached and
\* no token was ever created
C26_Witness ==
    /\ auth.last.op = "isAuthenticated"
    /\ auth.last.flag = "true"
    /\ auth.made >= 2
    /\ auth.anyGitHubSession = NoSession
    /\ ~auth.stubToken

\* C28: in a pull or a benchmark a line that is not valid JSON is skipped:
\* a chunk leaves the loop's locals and the progress reports exactly as the
\* same chunk without its invalid lines would, so the lines after it are
\* processed and lastPercent is not changed by it; nothing is thrown, and
\* when the stream ends the operation ends with its success outcome.
C28_InvalidLineSkipped ==
    /\ stream.last = "read" =>
          LET valid == SelectSeq(stream.chunk, LAMBDA l : JSONparse(l).ok) IN
          /\ stream.acc.thrown = Undefined
          /\ stream.acc = ProcessChunk(stream.kind, stream.pre, valid)
          /\ valid = <<>> =>
                /\ stream.acc.lastPercent = stream.pre.lastPercent
                /\ stream.acc.tokenCount = stream.pre.tokenCount
                /\ stream.acc.reports = <<>>
          /\ ~stream.cancelled =>
                stream.phase = "reading" /\ stream.outcome = Undefined
    /\ stream.last = "end" =>
          /\ stream.phase = "done"
          /\ stream.outcome = SuccessOutcome(stream.kind, stream.model)

\* a pull ended with success after a chunk whose first line was not JSON and
\* whose second line moved the progress
C28_Witness ==
    /\ stream.kind = "pull"
    /\ stream.last = "end"
    /\ stream.outcome = "Successfully pulled a"
    /\ Len(stream.chunk) = 2
    /\ ~JSONparse(stream.chunk[1]).ok
    /\ stream.acc.lastPercent > stream.pre.lastPercent

\* C32: status becomes Connected only from Starting: no step takes the
\* status from Disconnected or Reconnecting straight to Connected.
C32_AsStated ==
    (state.status = Connected /\ lastOp.pre.status # Connected)
        => lastOp.pre.status = Starting

\* C33: once updateEndpoint has replaced the endpoint, no connect() whose
\* /api/tags probe was sent to the previous endpoint makes the state
\* Connected or fills availableModels.
C33_AsStated ==
    [][\A c \in BagToSet(calls) :
          (/\ c.pc = "tags"
           /\ calls' = Remove(calls, c)
           /\ lastOp'.op = "connect"
           /\ lastOp'.ret = "true")
              => c.url = ollamaEndpoint]_vars

\* C34: a health probe that fails when the status has already left Connected
\* changes neither the state nor the reconnect timer.
C34_AsStated ==
    (lastOp.op = "healthFail" /\ lastOp.pre.status # Connected)
        => /\ state = lastOp.pre
           /\ \A k \in DOMAIN events : events[k].type # "setTimeout"

\* C35: currentModel is unset or one of availableModels.
C35_AsStated ==
    state.currentModel # Undefined
        => Includes(state.availableModels, state.currentModel)

\* the steps of a connect() that ends in failure, and of its callers before
\* the first await
FailedConnectStep(op) ==
    \/ op.op \in {"timer", "retry", "reconnect", "updateEndpoint"}
    \/ op.op = "connect" /\ op.ret \in {"pending", "false"}

\* C36: a connect() that fails writes neither availableModels nor
\* currentModel, latency or lastSuccessfulConnection: each of its steps,
\* from updateStatus(Starting) to the catch block with scheduleReconnect,
\* leaves these four fields as it found them.
C36_FailedConnectFrame ==
    FailedConnectStep(lastOp) =>
        /\ state.availableModels = lastOp.pre.availableModels
        /\ state.currentModel = lastOp.pre.currentModel
        /\ state.latency = lastOp.pre.latency
        /\ state.lastSuccessfulConnection = lastOp.pre.lastSuccessfulConnection

\* a connect() failed on a manager that had been connected, had models,
\* a current model and a latency
C36_Witness ==
    /\ lastOp.op = "connect"
    /\ lastOp.ret = "false"
    /\ state.status # lastOp.pre.status
    /\ state.availableModels # <<>>
    /\ state.currentModel # Undefined
    /\ state.latency # NoLatency
    /\ state.lastSuccessfulConnection # NoDate

\* C37: the Ollama provider is registered exactly once: after the
\* constructor's call of _authChange and any number of authentication-change
\* events the provider map holds the one Ollama entry and
\* registerLanguageModelChatProvider has been called once.
C37_RegisteredOnce ==
    /\ byok.byokProvidersRegistered
    /\ Cardinality(byok.providers) = 1
    /\ \A e \in byok.providers : e.name = "ollama"
    /\ byok.registerCalls = 1

\* authentication-change events arrived after the endpoint setting changed
C37_Witness ==
    /\ byok.last = "authChange"
    /\ byok.authChanges >= 3
    /\ byok.config = "http://other:11434"

\* C39: getChatParticipantNameFromId(getChatParticipantIdFromName(name))
\* is name for every name, also for a name that itself begins with
\* 'ollama.code.'; and getChatParticipantNameFromId returns an id that does
\* not begin with 'ollama.code.' unchanged.
C39_RoundTrip ==
    /\ chat.op = "roundTrip" => chat.output = chat.input
    /\ chat.op = "getChatParticipantIdFromName" =>
          getChatParticipantNameFromId(chat.output) = chat.input
    /\ (chat.op = "getChatParticipantNameFromId" /\ ~StartsWithPrefix(chat.input))
          => chat.output = chat.input

\* a name that begins with the prefix came back from its id
C39_Witness ==
    /\ chat.op = "roundTrip"
    /\ chat.input = "ollama.code.workspace"
    /\ chat.output = "ollama.code.workspace"

\* the increments of the reports that carry one
Increments(reports) ==
    SelectSeq([k \in DOMAIN reports |-> reports[k].increment],
              LAMBDA i : i # NoIncrement)

RECURSIVE Sum(_)
Sum(seq) == IF seq = <<>> THEN 0 ELSE Head(seq) + Sum(Tail(seq))

\* C38: in a pull every reported increment is strictly positive, lastPercent
\* never decreases, and the increments add up to lastPercent: each step of a
\* pull reports increments that are positive and whose sum is the growth of
\* lastPercent in that step, from lastPercent = 0 at the start.
C38_IncrementsAddUp ==
    [][stream'.kind = "pull" =>
          LET was == IF stream.kind = "pull" THEN stream.acc.lastPercent ELSE 0
              incs == Increments(stream'.acc.reports)
          IN /\ \A k \in DOMAIN incs : incs[k] > 0
             /\ stream'.acc.lastPercent >= was
             /\ Sum(incs) = stream'.acc.lastPercent - was]_vars

\* a chunk whose percentage goes down from 100 to 50 after an earlier 50
C38_Witness ==
    /\ stream.kind = "pull"
    /\ stream.last = "read"
    /\ stream.pre.lastPercent = 50
    /\ stream.chunk = <<LineFull, LineHalf>>
    /\ stream.acc.lastPercent = 100
    /\ Len(stream.acc.reports) = 1

\* C31: if from some point on no probe of the backend fails, then, timers
\* firing and in-flight probes completing, the manager ends up Connected for
\* good, unless it is parked at the reconnect ceiling.
C31_EventuallyConnected ==
    (<>[][~ProbeFailure]_vars) => <>[](state.status = Connected \/ Parked)

\* Connected after three failed attempts in a row
C31_Witness ==
    /\ state.status = Connected
    /\ lastOp.op = "connect"
    /\ lastOp.ret = "true"
    /\ lastOp.pre.reconnectAttempts >= 3

TypeOK ==
    /\ state.status \in ConnectionStatus
    /\ state.reconnectAttempts \in 0..MAX_RECONNECT_ATTEMPTS
    /\ prompts \in 0..MaxPrompts
    /\ Cardinality(timers) <= 1
    /\ snapshot.taken \in BOOLEAN
    /\ snapshot.shared => snapshot.value.availableModels = state.availableModels
    /\ payload.want \in ConnectionStatus \cup {"none"}
    /\ payload.held => payload.asDelivered.status = payload.want
    /\ payload.live => payload.now = state
    /\ launcher.inflight + launcher.stale <= MaxOverlap
    /\ launcher.interval <=> \E c \in BagToSet(calls) : c.pc = "polling"
    /\ launcher.inflight > 0 => launcher.interval
    /\ auth.made \in 0..MaxAuthCalls
    /\ auth.stubToken \in BOOLEAN
    /\ stream.kind \in {"none", "pull", "benchmark"}
    /\ stream.phase \in {"idle", "fetching", "reading", "done"}
    /\ stream.reads \in 0..MaxChunks
    /\ stream.acc.lastPercent \in 0..100
    /\ stream.chunk \in Chunks
    /\ stream.phase = "done" <=> stream.outcome # Undefined
    /\ byok.authChanges \in 1..MaxAuthChanges
    /\ byok.registerCalls \in Nat
    /\ chat.input \in Names

====
